---- MODULE Spec2Model ----
(***************************************************************************)
(* Swap-space provisioning of SYS_crash-CAP (src/swap_manager.py):         *)
(* SwapManager (partition workflow), SwapFileManager (swap-file workflow)  *)
(* and the /etc/fstab step both share, driven from the swap console of     *)
(* src/src/main.py.                                                        *)
(*                                                                         *)
(* Text is modelled as a sequence of one-character strings, so that the    *)
(* regular expressions, the "x in text" tests and float() are computed on  *)
(* the characters as Python computes them.  Numbers are exact rationals    *)
(* [n, d]; binary floating-point rounding is not modelled.                 *)
(*                                                                         *)
(* The outputs of parted and lsblk are texts in the shape the parsing code *)
(* is written for: a free row of "parted -m" has the bare fifth field      *)
(* "free", "lsblk -b -n -o SIZE" prints one number, and the names printed  *)
(* by "lsblk -ln -o NAME" carry no padding.  Every command may also fail.  *)
(***************************************************************************)
EXTENDS Integers, Sequences, FiniteSets, TLC

\* ------------------------------------------------------------------ bounds
\* calls (sp, sf, rm) started from the swap console, over all processes
MaxCalls == 2
\* size prompts answered in one choose_disk_and_size_and_create call
MaxPrompts == 2
\* monitor commands (start, stop) given at the main prompt
MaxMonitorCommands == 3

\* --------------------------------------------------------------- text tools
DigitChars == <<"0", "1", "2", "3", "4", "5", "6", "7", "8", "9">>
UpperChars == <<"A", "B", "C", "D", "E", "F", "G", "H", "I", "J", "K", "L", "M",
                "N", "O", "P", "Q", "R", "S", "T", "U", "V", "W", "X", "Y", "Z">>
LowerChars == <<"a", "b", "c", "d", "e", "f", "g", "h", "i", "j", "k", "l", "m",
                "n", "o", "p", "q", "r", "s", "t", "u", "v", "w", "x", "y", "z">>

IsDigit(c) == \E i \in 1..Len(DigitChars) : DigitChars[i] = c
DigitVal(c) == (CHOOSE i \in 1..Len(DigitChars) : DigitChars[i] = c) - 1

\* str.lower()
LowerChar(c) ==
    IF \E i \in 1..Len(UpperChars) : UpperChars[i] = c
    THEN LowerChars[CHOOSE i \in 1..Len(UpperChars) : UpperChars[i] = c]
    ELSE c
Lower(s) == [i \in 1..Len(s) |-> LowerChar(s[i])]

\* text[i..] starts with pat
MatchAt(text, pat, i) ==
    /\ i >= 1
    /\ i + Len(pat) - 1 <= Len(text)
    /\ \A k \in 1..Len(pat) : text[i + k - 1] = pat[k]

\* Python's "pat in text"
Contains(text, pat) == \E i \in 1..(Len(text) + 1) : MatchAt(text, pat, i)

\* str.replace(pat, "") for a non-empty pat
RECURSIVE RemoveAll(_, _)
RemoveAll(text, pat) ==
    IF text = << >> THEN << >>
    ELSE IF MatchAt(text, pat, 1)
         THEN RemoveAll(SubSeq(text, Len(pat) + 1, Len(text)), pat)
         ELSE <<Head(text)>> \o RemoveAll(Tail(text), pat)

IsPrefix(a, b) == Len(a) <= Len(b) /\ SubSeq(b, 1, Len(a)) = a

\* str.splitlines() on "\n"-separated text (a trailing newline opens no line)
RECURSIVE SplitLines(_)
SplitLines(text) ==
    IF text = << >> THEN << >>
    ELSE IF \E i \in 1..Len(text) : text[i] = "\n"
         THEN LET i == CHOOSE k \in 1..Len(text) :
                          text[k] = "\n" /\ \A j \in 1..(k - 1) : text[j] # "\n"
              IN  <<SubSeq(text, 1, i - 1)>> \o SplitLines(SubSeq(text, i + 1, Len(text)))
         ELSE <<text>>

\* ----------------------------------------------------------------- numbers
RECURSIVE GCD(_, _)
GCD(a, b) == IF b = 0 THEN a ELSE GCD(b, a % b)

\* a rational in lowest terms (d > 0)
Rat(n, d) == LET g == GCD(n, d) IN [n |-> n \div g, d |-> d \div g]
RatGT(a, b) == a.n * b.d > b.n * a.d
RatAdd(a, b) == Rat(a.n * b.d + b.n * a.d, a.d * b.d)
RatMul(a, k) == LET g == GCD(k, a.d) IN Rat(a.n * (k \div g), a.d \div g)
\* int(a): truncation of a non-negative rational
RatFloor(a) == a.n \div a.d
RatDiv(a, k) == Rat(a.n, a.d * k)
ZeroRat == Rat(0, 1)

RECURSIVE Pow10(_)
Pow10(k) == IF k = 0 THEN 1 ELSE 10 * Pow10(k - 1)

RECURSIVE DigitsToInt(_)
DigitsToInt(s) ==
    IF s = << >> THEN 0
    ELSE 10 * DigitsToInt(SubSeq(s, 1, Len(s) - 1)) + DigitVal(s[Len(s)])

\* a raised exception, as a value
ValueError == [err |-> "ValueError"]
IndexError == [err |-> "IndexError"]
IsError(v) == v \in {ValueError, IndexError}

\* str(k) for k >= 0
RECURSIVE IntText(_)
IntText(k) ==
    IF k < 10 THEN <<DigitChars[k + 1]>>
    ELSE IntText(k \div 10) \o <<DigitChars[(k % 10) + 1]>>

\* float(s) for plain decimal text ("2", "1.5", ".5", "9."); anything else
\* (also "") raises ValueError
IsDecimalText(s) ==
    /\ \A i \in 1..Len(s) : IsDigit(s[i]) \/ s[i] = "."
    /\ Cardinality({i \in 1..Len(s) : s[i] = "."}) <= 1
    /\ \E i \in 1..Len(s) : IsDigit(s[i])

Float(s) ==
    IF ~IsDecimalText(s) THEN ValueError
    ELSE IF \E i \in 1..Len(s) : s[i] = "."
         THEN LET p == CHOOSE i \in 1..Len(s) : s[i] = "."
              IN  Rat(DigitsToInt(SubSeq(s, 1, p - 1) \o SubSeq(s, p + 1, Len(s))),
                      Pow10(Len(s) - p))
         ELSE Rat(DigitsToInt(s), 1)

\* ------------------------------------------------------------- text values
T_GiB == <<"G", "i", "B">>
T_free == <<"f", "r", "e", "e">>
T_hash == <<"#">>
T_dev == <<"/", "d", "e", "v", "/">>
T_fstab_fields ==
    <<" ", "n", "o", "n", "e", " ", "s", "w", "a", "p", " ", "s", "w", " ", "0", " ",
    "0">>
T_newline == <<"\n">>
T_swapon == <<"s", "w", "a", "p", "o", "n">>
T_fallocate == <<"f", "a", "l", "l", "o", "c", "a", "t", "e">>
T_InvalidArgument ==
    <<"I", "n", "v", "a", "l", "i", "d", " ", "a", "r", "g", "u", "m", "e", "n", "t">>
T_swap_file == <<"s", "w", "a", "p", " ", "f", "i", "l", "e">>

C_fallocate ==
    <<"s", "u", "d", "o", " ", "f", "a", "l", "l", "o", "c", "a", "t", "e", " ", "-",
      "l", " ">>
C_chmod ==
    <<"s", "u", "d", "o", " ", "c", "h", "m", "o", "d", " ", "0", "6", "0", "0", " ">>
C_mkswap == <<"s", "u", "d", "o", " ", "m", "k", "s", "w", "a", "p", " ">>
C_swapon == <<"s", "u", "d", "o", " ", "s", "w", "a", "p", "o", "n", " ">>
C_truncate ==
    <<"s", "u", "d", "o", " ", "t", "r", "u", "n", "c", "a", "t", "e", " ", "-", "s",
      " ", "0", " ">>
C_chattr ==
    <<"s", "u", "d", "o", " ", "c", "h", "a", "t", "t", "r", " ", "+", "C", " ">>
C_dd_of ==
    <<"s", "u", "d", "o", " ", "d", "d", " ", "i", "f", "=", "/", "d", "e", "v", "/",
      "z", "e", "r", "o", " ", "o", "f", "=">>
C_dd_bs == <<" ", "b", "s", "=", "1", "M", " ", "c", "o", "u", "n", "t", "=">>
C_dd_status ==
    <<" ", "s", "t", "a", "t", "u", "s", "=", "p", "r", "o", "g", "r", "e", "s", "s">>
T_space == <<" ">>
T_btrfs == <<"b", "t", "r", "f", "s">>
T_ext4 == <<"e", "x", "t", "4">>
FileOut_swap ==
    <<"L", "i", "n", "u", "x", " ", "s", "w", "a", "p", " ", "f", "i", "l", "e">>

\* unit tokens of the size pattern, in the order of the alternation
UnitAlts ==
    <<<<"M", "i", "B">>, <<"G", "i", "B">>, <<"M">>, <<"G">>, <<"M", "B">>, <<"G", "B">>>>

\* size strings an operator types at the size prompts
Size_0G == <<"0", "G">>
Size_1G == <<"1", "G">>
Size_1p5G == <<"1", ".", "5", "G">>
Size_0p5G == <<"0", ".", "5", "G">>
Size_2TiB == <<"2", "T", "i", "B">>
Size_32M == <<"3", "2", "M">>

\* swap-file paths an operator types, and the disk of the partition workflow
Path_swapfile == <<"/", "s", "w", "a", "p", "f", "i", "l", "e">>
Path_odd ==
    <<"/", "I", "n", "v", "a", "l", "i", "d", " ", "a", "r", "g", "u", "m", "e", "n",
    "t">>
Disk_sda == <<"/", "d", "e", "v", "/", "s", "d", "a">>

\* outputs of "lsblk -ln -o NAME <disk>"
Names_sda == <<"s", "d", "a">>
Names_sda_1 == <<"s", "d", "a", "\n", "s", "d", "a", "1">>
Names_sda_1_2 == <<"s", "d", "a", "\n", "s", "d", "a", "1", "\n", "s", "d", "a", "2">>
Names_sda_1_2_3 ==
    <<"s", "d", "a", "\n", "s", "d", "a", "1", "\n", "s", "d", "a", "2", "\n", "s", "d",
    "a", "3">>

\* outputs of "parted -m <disk> unit GiB print [free]" and "lsblk -b -n -o SIZE
\* <disk>", in the shape the parsing code is written for: a free region is a
\* row whose fifth field is the word free, the size is one decimal number
PrintFree_blank ==
    <<"B", "Y", "T", ";", "\n", "/", "d", "e", "v", "/", "s", "d", "a", ":", "1", ".",
    "5", "0", "G", "i", "B", ":", "s", "c", "s", "i", ":", "5", "1", "2", ":", "5", "1",
    "2", ":", "g", "p", "t", ":", ":", ";", "\n", "1", ":", "0", ".", "0", "0", "G",
    "i", "B", ":", "1", ".", "5", "0", "G", "i", "B", ":", "1", ".", "5", "0", "G", "i",
    "B", ":", "f", "r", "e", "e">>
Print_blank ==
    <<"B", "Y", "T", ";", "\n", "/", "d", "e", "v", "/", "s", "d", "a", ":", "1", ".",
    "5", "0", "G", "i", "B", ":", "s", "c", "s", "i", ":", "5", "1", "2", ":", "5", "1",
    "2", ":", "g", "p", "t", ":", ":", ";">>
PrintFree_small ==
    <<"B", "Y", "T", ";", "\n", "/", "d", "e", "v", "/", "s", "d", "a", ":", "0", ".",
    "5", "0", "G", "i", "B", ":", "s", "c", "s", "i", ":", "5", "1", "2", ":", "5", "1",
    "2", ":", "g", "p", "t", ":", ":", ";", "\n", "1", ":", "0", ".", "0", "0", "G",
    "i", "B", ":", "0", ".", "5", "0", "G", "i", "B", ":", "0", ".", "5", "0", "G", "i",
    "B", ":", "f", "r", "e", "e">>
Print_small ==
    <<"B", "Y", "T", ";", "\n", "/", "d", "e", "v", "/", "s", "d", "a", ":", "0", ".",
    "5", "0", "G", "i", "B", ":", "s", "c", "s", "i", ":", "5", "1", "2", ":", "5", "1",
    "2", ":", "g", "p", "t", ":", ":", ";">>
PrintFree_full ==
    <<"B", "Y", "T", ";", "\n", "/", "d", "e", "v", "/", "s", "d", "a", ":", "1", ".",
    "5", "0", "G", "i", "B", ":", "s", "c", "s", "i", ":", "5", "1", "2", ":", "5", "1",
    "2", ":", "g", "p", "t", ":", ":", ";", "\n", "1", ":", "0", ".", "0", "0", "G",
    "i", "B", ":", "1", ".", "5", "0", "G", "i", "B", ":", "1", ".", "5", "0", "G", "i",
    "B", ":", "e", "x", "t", "4", ":", ":", ";">>
Print_full ==
    <<"B", "Y", "T", ";", "\n", "/", "d", "e", "v", "/", "s", "d", "a", ":", "1", ".",
    "5", "0", "G", "i", "B", ":", "s", "c", "s", "i", ":", "5", "1", "2", ":", "5", "1",
    "2", ":", "g", "p", "t", ":", ":", ";", "\n", "1", ":", "0", ".", "0", "0", "G",
    "i", "B", ":", "1", ".", "5", "0", "G", "i", "B", ":", "1", ".", "5", "0", "G", "i",
    "B", ":", "e", "x", "t", "4", ":", ":", ";">>
PrintFree_tail ==
    <<"B", "Y", "T", ";", "\n", "/", "d", "e", "v", "/", "s", "d", "a", ":", "1", ".",
    "5", "0", "G", "i", "B", ":", "s", "c", "s", "i", ":", "5", "1", "2", ":", "5", "1",
    "2", ":", "g", "p", "t", ":", ":", ";", "\n", "1", ":", "0", ".", "0", "0", "G",
    "i", "B", ":", "1", ".", "0", "0", "G", "i", "B", ":", "1", ".", "0", "0", "G", "i",
    "B", ":", "e", "x", "t", "4", ":", ":", ";", "\n", "1", ":", "1", ".", "0", "0",
    "G", "i", "B", ":", "1", ".", "5", "0", "G", "i", "B", ":", "0", ".", "5", "0", "G",
    "i", "B", ":", "f", "r", "e", "e">>
Print_tail ==
    <<"B", "Y", "T", ";", "\n", "/", "d", "e", "v", "/", "s", "d", "a", ":", "1", ".",
    "5", "0", "G", "i", "B", ":", "s", "c", "s", "i", ":", "5", "1", "2", ":", "5", "1",
    "2", ":", "g", "p", "t", ":", ":", ";", "\n", "1", ":", "0", ".", "0", "0", "G",
    "i", "B", ":", "1", ".", "0", "0", "G", "i", "B", ":", "1", ".", "0", "0", "G", "i",
    "B", ":", "e", "x", "t", "4", ":", ":", ";">>
SizeOut_1532MiB == <<"1", "6", "0", "6", "4", "1", "8", "4", "3", "2">>
SizeOut_508MiB == <<"5", "3", "2", "6", "7", "6", "6", "0", "8">>
SizeOut_1536MiB == <<"1", "6", "1", "0", "6", "1", "2", "7", "3", "6">>

\* ------------------------------------------------------ regular expressions
\* end (exclusive) of the run of digits that starts at i
RECURSIVE DigitsEnd(_, _)
DigitsEnd(s, i) ==
    IF i <= Len(s) /\ IsDigit(s[i]) THEN DigitsEnd(s, i + 1) ELSE i

\* end (exclusive) of the match of \d+(\.\d+)? that starts at the digit s[i]
NumberEnd(s, i) ==
    LET j == DigitsEnd(s, i)
    IN  IF j + 1 <= Len(s) /\ s[j] = "." /\ IsDigit(s[j + 1])
        THEN DigitsEnd(s, j + 1)
        ELSE j

\* start of the leftmost match of \d+..., 0 when there is none
FirstDigit(s) ==
    IF \E i \in 1..Len(s) : IsDigit(s[i])
    THEN CHOOSE i \in 1..Len(s) : IsDigit(s[i]) /\ \A j \in 1..(i - 1) : ~IsDigit(s[j])
    ELSE 0

\* float(re.findall(r'\d+(?:\.\d+)?', s)[0]): the whole first match
FindNumber(s) ==
    LET i == FirstDigit(s)
    IN  IF i = 0 THEN IndexError ELSE Float(SubSeq(s, i, NumberEnd(s, i) - 1))

\* float(re.findall(r'\d+(\.\d+)?', s)[0]): with one capturing group findall
\* returns the group, i.e. the fraction ".5" of the first match, or "" when
\* the first match has none
FindNumberGroup(s) ==
    LET i == FirstDigit(s)
        j == IF i = 0 THEN 0 ELSE DigitsEnd(s, i)
    IN  IF i = 0 THEN IndexError ELSE Float(SubSeq(s, j, NumberEnd(s, i) - 1))

\* the alternation (MiB|GiB|M|G|MB|GB) with re.IGNORECASE matches at i
UnitAt(s, i) == \E a \in 1..Len(UnitAlts) : MatchAt(Lower(s), Lower(UnitAlts[a]), i)

\* re.findall(r'(MiB|GiB|M|G|MB|GB)', s, re.IGNORECASE)[0].lower(): leftmost
\* position, first alternative that matches there
FindUnit(s) ==
    IF \E i \in 1..Len(s) : UnitAt(s, i)
    THEN LET i == CHOOSE k \in 1..Len(s) : UnitAt(s, k) /\ \A j \in 1..(k - 1) : ~UnitAt(s, j)
             a == CHOOSE k \in 1..Len(UnitAlts) :
                      /\ MatchAt(Lower(s), Lower(UnitAlts[k]), i)
                      /\ \A j \in 1..(k - 1) : ~MatchAt(Lower(s), Lower(UnitAlts[j]), i)
         IN  [unit |-> Lower(UnitAlts[a])]
    ELSE IndexError

\* unit in ['m', 'mb', 'mib']
IsMebi(unit) == unit \in {<<"m">>, <<"m", "b">>, <<"m", "i", "b">>}
IsGibi(unit) == unit \in {<<"g">>, <<"g", "b">>, <<"g", "i", "b">>}

\* str.split(sep) for a one-character separator
RECURSIVE Split(_, _)
Split(text, sep) ==
    IF \E i \in 1..Len(text) : text[i] = sep
    THEN LET i == CHOOSE k \in 1..Len(text) :
                     text[k] = sep /\ \A j \in 1..(k - 1) : text[j] # sep
         IN  <<SubSeq(text, 1, i - 1)>> \o Split(SubSeq(text, i + 1, Len(text)), sep)
    ELSE <<text>>

\* max() of a non-empty sequence of rationals
RECURSIVE RatMax(_)
RatMax(q) ==
    IF Len(q) = 1 THEN q[1]
    ELSE LET m == RatMax(Tail(q)) IN IF RatGT(q[1], m) THEN q[1] ELSE m

\* ------------------------------------------------- SwapManager, pure parts
\* validate_size: ^\d+(\.\d+)?(MiB|GiB|M|G|MB|GB)$ with re.IGNORECASE
validate_size(size_str) ==
    /\ Len(size_str) >= 1
    /\ IsDigit(size_str[1])
    /\ LET j == NumberEnd(size_str, 1)
       IN  \E a \in 1..Len(UnitAlts) :
               Lower(SubSeq(size_str, j, Len(size_str))) = Lower(UnitAlts[a])

\* the free_spaces list built by get_free_space_gib from the parted output
RECURSIVE FreeSpaces(_)
FreeSpaces(lines) ==
    IF lines = << >> THEN << >>
    ELSE LET fields == Split(Head(lines), ":")
             rest == FreeSpaces(Tail(lines))
         IN  IF Len(fields) >= 5 /\ fields[5] = T_free
             THEN LET size_gib == Float(RemoveAll(fields[4], T_GiB))
                  IN  IF IsError(size_gib) THEN rest ELSE <<size_gib>> \o rest
             ELSE rest

\* get_free_space_gib, from the output of "parted -m <disk> unit GiB print free"
get_free_space_gib(parted_output) ==
    LET free_spaces == FreeSpaces(SplitLines(parted_output))
    IN  IF free_spaces = << >> THEN ZeroRat ELSE RatMax(free_spaces)

\* size_gib = num / 1024 if unit in ['m', 'mb', 'mib'] else num
SizeGib(num, unit) == IF IsMebi(unit) THEN RatDiv(num, 1024) ELSE num

\* variant of check_free_space that compares the size with the free MiB
check_free_space_mib(parted_output, size_str) ==
    LET num == FindNumber(size_str)
        unit == FindUnit(size_str)
    IN  IF IsError(num) \/ IsError(unit)
        THEN [fits |-> FALSE, free_mib |-> ZeroRat]
        ELSE LET size_gib == SizeGib(num, unit.unit)
                 free_gib == get_free_space_gib(parted_output)
             IN  IF RatGT(size_gib, RatMul(free_gib, 1024))
                 THEN [fits |-> FALSE, free_mib |-> RatMul(free_gib, 1024)]
                 ELSE [fits |-> TRUE, free_mib |-> RatMul(free_gib, 1024)]

\* check_free_space: (fits, free MiB), from size_str and the parted output
check_free_space(parted_output, size_str) ==
    LET num == FindNumber(size_str)
        unit == FindUnit(size_str)
    IN  IF IsError(num) \/ IsError(unit)
        THEN [fits |-> FALSE, free_mib |-> ZeroRat]
        ELSE LET size_gib == SizeGib(num, unit.unit)
                 free_gib == get_free_space_gib(parted_output)
             IN  IF RatGT(size_gib, free_gib)
                 THEN [fits |-> FALSE, free_mib |-> RatMul(free_gib, 1024)]
                 ELSE [fits |-> TRUE, free_mib |-> RatMul(free_gib, 1024)]

\* last_end of create_swap_partition, from "parted -m <disk> unit GiB print"
RECURSIVE LastEnd(_, _, _)
LastEnd(lines, disk, last_end) ==
    IF lines = << >> THEN last_end
    ELSE LET line == Head(lines)
             fields == Split(line, ":")
         IN  IF IsPrefix(T_hash, line) \/ IsPrefix(disk, line)
             THEN LastEnd(Tail(lines), disk, last_end)
             ELSE IF Len(fields) > 3
                  THEN LET end_gib == Float(RemoveAll(fields[3], T_GiB))
                       IN  IF ~IsError(end_gib) /\ RatGT(end_gib, last_end)
                           THEN LastEnd(Tail(lines), disk, end_gib)
                           ELSE LastEnd(Tail(lines), disk, last_end)
                  ELSE LastEnd(Tail(lines), disk, last_end)

\* size_gib of create_swap_partition (lines 167-169): the number is taken
\* from the capturing-group findall
create_size_gib(size) ==
    LET num == FindNumberGroup(size)
        unit == FindUnit(size)
    IN  IF IsError(num) THEN num
        ELSE IF IsError(unit) THEN unit
        ELSE SizeGib(num, unit.unit)

\* int(text) / (1024**3) for the output of "lsblk -b -n -o SIZE <disk>"
disk_size_gib(size_output) ==
    IF size_output # << >> /\ \A i \in 1..Len(size_output) : IsDigit(size_output[i])
    THEN Rat(DigitsToInt(size_output), 1024 * 1024 * 1024)
    ELSE ValueError

\* variant of new_parts that keeps every name of the listing
new_parts_unfiltered(part_list_after, parts_before) == part_list_after

\* new_parts = [p for p in part_list_after if p not in parts_before]
RECURSIVE new_parts(_, _)
new_parts(part_list_after, parts_before) ==
    IF part_list_after = << >> THEN << >>
    ELSE LET p == Head(part_list_after)
             rest == new_parts(Tail(part_list_after), parts_before)
         IN  IF \E i \in 1..Len(parts_before) : parts_before[i] = p
             THEN rest
             ELSE <<p>> \o rest

\* str.strip() of a line (blanks at both ends)
RECURSIVE Strip(_)
Strip(s) ==
    IF s # << >> /\ Head(s) \in {" ", "\t"} THEN Strip(Tail(s))
    ELSE IF s # << >> /\ s[Len(s)] \in {" ", "\t"} THEN Strip(SubSeq(s, 1, Len(s) - 1))
    ELSE s

\* parts_before = [line.strip() for line in part_list.splitlines()]
StripAll(lines) == [i \in 1..Len(lines) |-> Strip(lines[i])]

\* the line both provisioners append: f"\n{target} none swap sw 0 0\n"
FstabLine(target) == T_newline \o target \o T_fstab_fields \o T_newline

\* how the open() calls on /etc/fstab end
FstabIo == {"ok", "read_error", "write_error"}

\* variant of partition_fstab that appends without looking for the path
partition_fstab_always(text, swap_partition, io) ==
    IF io = "read_error" THEN [fstab |-> text, status |-> "OSError"]
    ELSE IF io = "write_error" THEN [fstab |-> text, status |-> "OSError"]
    ELSE [fstab |-> text \o FstabLine(swap_partition), status |-> "Added"]

\* lines 203-210 of create_swap_partition: the new text of /etc/fstab, and
\* whether the line was appended, the path was found, or open() raised
partition_fstab(text, swap_partition, io) ==
    IF io = "read_error" THEN [fstab |-> text, status |-> "OSError"]
    ELSE IF ~Contains(text, swap_partition)
    THEN IF io = "write_error" THEN [fstab |-> text, status |-> "OSError"]
         ELSE [fstab |-> text \o FstabLine(swap_partition), status |-> "Added"]
    ELSE [fstab |-> text, status |-> "AlreadyPresent"]

\* ---------------------------------------------------------- environment
\* what the inspection commands print for /dev/sda: a blank 1532 MiB disk
\* (shown by parted as 1.50GiB), a blank 508 MiB disk (shown as 0.50GiB), a
\* 1536 MiB disk filled by one partition, and a 1536 MiB disk with one
\* partition and 0.50GiB free behind it
DiskScenarios ==
    << [print_free |-> PrintFree_blank, print |-> Print_blank,
        size |-> SizeOut_1532MiB, names |-> Names_sda],
       [print_free |-> PrintFree_small, print |-> Print_small,
        size |-> SizeOut_508MiB, names |-> Names_sda],
       [print_free |-> PrintFree_full, print |-> Print_full,
        size |-> SizeOut_1536MiB, names |-> Names_sda_1],
       [print_free |-> PrintFree_tail, print |-> Print_tail,
        size |-> SizeOut_1536MiB, names |-> Names_sda_1] >>

\* what "lsblk -ln -o NAME" may print after the mutation
AfterOutputs == {Names_sda, Names_sda_1, Names_sda_1_2, Names_sda_1_2_3}

SpSizeInputs == {Size_0G, Size_1G, Size_1p5G, Size_0p5G, Size_2TiB}

\* exit codes of the commands of the partition workflow
SpExitCodes == {0, 1}

\* /etc/fstab before the tool runs: the root filesystem and a swap line for
\* /dev/sda10
Fstab_sda10 ==
    <<"/", "d", "e", "v", "/", "s", "d", "b", "1", " ", "/", " ", "e", "x", "t", "4",
      " ", "d", "e", "f", "a", "u", "l", "t", "s", " ", "0", " ", "1", "\n", "/",
      "d", "e", "v", "/", "s", "d", "a", "1", "0", " ", "n", "o", "n", "e", " ", "s",
      "w", "a", "p", " ", "s", "w", " ", "0", " ", "0", "\n">>
InitFstabs == {Fstab_sda10}

\* ------------------------------------------------------------------- state
VARIABLES
    pc,           \* position of the interactive process
    calls,        \* swap-console calls started so far
    log,          \* commands and file writes issued by the current call
    outcome,      \* how the last call ended
    fstab,        \* text of /etc/fstab
    sp,           \* locals of the partition workflow
    sf,           \* the SwapFileManager object and the locals of its call
    ignored,      \* commands of the current call whose failure was not looked at
    mon           \* the PID file and the forked memory monitors

vars == <<pc, calls, log, outcome, fstab, sp, sf, ignored, mon>>

\* no PID file, no monitor forked, no monitor command given yet
\* (pid is the number in the PID file, 0 while the file is empty)
MonIdle == [exists |-> FALSE, pid |-> 0, procs |-> << >>, cmds |-> 0, said |-> "none"]

SpIdle ==
    [scen |-> 0, size |-> << >>, prompts |-> 0, free_mib |-> ZeroRat,
     proceed |-> FALSE, backup_file |-> FALSE, parts_before |-> << >>,
     last_end |-> ZeroRat, start |-> ZeroRat, end |-> ZeroRat,
     part_list_after |-> << >>, new_parts |-> << >>, swap_partition |-> << >>,
     fstab_status |-> "none"]

\* SwapFileManager.__init__, and the locals of create_swap_file
SfNew ==
    [swap_file_path |-> Path_swapfile, size |-> Size_1G, size_bytes |-> 0,
     fs_type |-> << >>, retry_count |-> 0, max_retries |-> 2,
     step |-> 0, in_handler |-> FALSE, retry_at_start |-> 0,
     fstab_status |-> "none", shown |-> << >>]

\* the fields of the object a new call finds, its own locals cleared
SfObject(rec) ==
    [rec EXCEPT !.step = 0, !.in_handler = FALSE, !.fstab_status = "none",
                !.retry_at_start = rec.retry_count, !.shown = << >>]

Init ==
    /\ pc = "menu"
    /\ calls = 0
    /\ log = << >>
    /\ outcome = "none"
    /\ fstab \in InitFstabs
    /\ sp = SpIdle
    /\ sf = SfNew
    /\ ignored = {}
    /\ mon = MonIdle

\* a log entry: the command, the part of the program that issued it, and how
\* it ended as far as the program looked: its exit code or that it timed out;
\* checked is FALSE for a command run with check=False, whose exit code the
\* program does not look at (a failure of it is recorded in ignored)
SfEntry(cmd, out, by) ==
    [cmd |-> cmd, rc |-> out.rc, timeout |-> out.timeout, by |-> by, checked |-> TRUE]
Unchecked(cmd, by) ==
    [cmd |-> cmd, rc |-> 0, timeout |-> FALSE, by |-> by, checked |-> FALSE]
Entry(cmd, rc) ==
    [cmd |-> cmd, rc |-> rc, timeout |-> FALSE, by |-> "partition", checked |-> TRUE]

\* sys.exit(code): the process ends
Exit(why) == pc' = "exited" /\ outcome' = why

\* the call returns, or an exception reaches "except Exception" of main_loop:
\* the process goes on at its prompt
Return(why) == pc' = "menu" /\ outcome' = why

\* ------------------------------------------------- SwapManager (sp command)
\* SwapManager.run: list_disks_and_partitions, then choose_disk
SpRun ==
    /\ UNCHANGED mon
    /\ pc = "menu"
    /\ calls < MaxCalls
    /\ calls' = calls + 1
    /\ sf' = SfObject(sf)
    /\ ignored' = {}
    /\ UNCHANGED fstab
    /\ \E rc \in SpExitCodes, k \in 0..Len(DiskScenarios) :
        /\ log' = <<Entry("lsblk_disks", rc)>>
        /\ IF rc # 0 THEN sp' = SpIdle /\ Exit("CommandFailed")
           ELSE IF k = 0 THEN sp' = SpIdle /\ Exit("NoDisks")
           ELSE /\ sp' = [SpIdle EXCEPT !.scen = k]
                /\ pc' = "sp_size"
                /\ outcome' = "none"

\* one round of the size prompt of choose_disk_and_size_and_create:
\* validate_size, then check_free_space
SpSize ==
    /\ UNCHANGED mon
    /\ pc = "sp_size"
    /\ sp.prompts < MaxPrompts
    /\ UNCHANGED <<calls, fstab, sf, ignored>>
    /\ \E size \in SpSizeInputs, rc \in SpExitCodes :
        LET asked == [sp EXCEPT !.prompts = @ + 1, !.size = size]
            chk == check_free_space(DiskScenarios[sp.scen].print_free, size)
        IN  IF ~validate_size(size)
            THEN /\ rc = 0
                 /\ sp' = asked
                 /\ UNCHANGED <<pc, log, outcome>>
            ELSE /\ log' = Append(log, Entry("parted_print_free", rc))
                 /\ IF rc # 0 THEN sp' = asked /\ Exit("CommandFailed")
                    ELSE /\ sp' = [asked EXCEPT !.free_mib = chk.free_mib]
                         /\ pc' = IF chk.fits THEN "sp_confirm_size" ELSE "sp_refused"
                         /\ UNCHANGED outcome

\* the refusal branch: print the free rows, ask whether to go back
SpRefused ==
    /\ UNCHANGED mon
    /\ pc = "sp_refused"
    /\ UNCHANGED <<calls, fstab, sp, sf, ignored>>
    /\ \E rc \in SpExitCodes, back \in BOOLEAN :
        /\ log' = Append(log, Entry("parted_print_free", rc))
        /\ IF rc # 0 THEN back /\ Exit("CommandFailed")
           ELSE IF back THEN Return("GoBack")
           ELSE pc' = "sp_size" /\ UNCHANGED outcome

\* Confirm.ask("Confirm to create a swap partition ...")
SpConfirmSize ==
    /\ UNCHANGED mon
    /\ pc = "sp_confirm_size"
    /\ UNCHANGED <<calls, fstab, sp, sf, ignored, log, outcome>>
    /\ \E confirm \in BOOLEAN :
        pc' = IF confirm THEN "sp_warn" ELSE "sp_size"

\* variant of SpProceed in which the answer is not looked at
SpProceed_anyway ==
    /\ UNCHANGED mon
    /\ pc = "sp_warn"
    /\ UNCHANGED <<calls, fstab, sf, ignored, log>>
    /\ \E proceed \in BOOLEAN :
        /\ sp' = [sp EXCEPT !.proceed = proceed]
        /\ pc' = "sp_backup"
        /\ UNCHANGED outcome

\* create_swap_partition: the warning and Confirm.ask("Do you want to continue?")
SpProceed ==
    /\ UNCHANGED mon
    /\ pc = "sp_warn"
    /\ UNCHANGED <<calls, fstab, sf, ignored, log>>
    /\ \E proceed \in BOOLEAN :
        /\ sp' = [sp EXCEPT !.proceed = proceed]
        /\ IF ~proceed THEN Exit("AbortedByUser")
           ELSE pc' = "sp_backup" /\ UNCHANGED outcome

\* variant of SpBackup in which a failed dump does not end the call
SpBackup_unchecked ==
    /\ UNCHANGED mon
    /\ pc = "sp_backup"
    /\ UNCHANGED <<calls, fstab, sf, ignored>>
    /\ \E rc \in SpExitCodes :
        /\ log' = Append(log, Entry("sfdisk_dump", rc))
        /\ sp' = [sp EXCEPT !.backup_file = TRUE]
        /\ pc' = "sp_list_before"
        /\ UNCHANGED outcome

\* backup_partition_table: sfdisk --dump through run_cmd (check=True)
SpBackup ==
    /\ UNCHANGED mon
    /\ pc = "sp_backup"
    /\ UNCHANGED <<calls, fstab, sf, ignored>>
    /\ \E rc \in SpExitCodes :
        /\ log' = Append(log, Entry("sfdisk_dump", rc))
        /\ IF rc # 0 THEN UNCHANGED sp /\ Exit("CommandFailed")
           ELSE /\ sp' = [sp EXCEPT !.backup_file = TRUE]
                /\ pc' = "sp_list_before"
                /\ UNCHANGED outcome

\* parts_before, from lsblk -ln -o NAME
SpListBefore ==
    /\ UNCHANGED mon
    /\ pc = "sp_list_before"
    /\ UNCHANGED <<calls, fstab, sf, ignored>>
    /\ \E rc \in SpExitCodes :
        /\ log' = Append(log, Entry("lsblk_names", rc))
        /\ IF rc # 0 THEN UNCHANGED sp /\ Exit("CommandFailed")
           ELSE /\ sp' = [sp EXCEPT !.parts_before =
                              StripAll(SplitLines(DiskScenarios[sp.scen].names))]
                /\ pc' = "sp_parted"
                /\ UNCHANGED outcome

\* parted print, last_end, and the size computation of lines 167-172
SpPartedPrint ==
    /\ UNCHANGED mon
    /\ pc = "sp_parted"
    /\ UNCHANGED <<calls, fstab, sf, ignored>>
    /\ \E rc \in SpExitCodes :
        LET last_end == LastEnd(SplitLines(DiskScenarios[sp.scen].print), Disk_sda, ZeroRat)
            size_gib == create_size_gib(sp.size)
        IN  /\ log' = Append(log, Entry("parted_print", rc))
            /\ IF rc # 0 THEN UNCHANGED sp /\ Exit("CommandFailed")
               ELSE IF IsError(size_gib)
               THEN /\ sp' = [sp EXCEPT !.last_end = last_end]
                    /\ Return(size_gib.err)
               ELSE /\ sp' = [sp EXCEPT !.last_end = last_end, !.start = last_end,
                                        !.end = RatAdd(last_end, size_gib)]
                    /\ pc' = "sp_disk_size"
                    /\ UNCHANGED outcome

\* lsblk -b -n -o SIZE and the test "end > disk_size_gib"
SpDiskSize ==
    /\ UNCHANGED mon
    /\ pc = "sp_disk_size"
    /\ UNCHANGED <<calls, fstab, sp, sf, ignored>>
    /\ \E rc \in SpExitCodes :
        LET disk_size == disk_size_gib(DiskScenarios[sp.scen].size)
        IN  /\ log' = Append(log, Entry("lsblk_size", rc))
            /\ IF rc # 0 THEN Exit("CommandFailed")
               ELSE IF IsError(disk_size) THEN Return(disk_size.err)
               ELSE IF RatGT(sp.end, disk_size) THEN Exit("InsufficientSpace")
               ELSE pc' = "sp_mkpart" /\ UNCHANGED outcome

\* parted -s <disk> mkpart primary linux-swap <start>GiB <end>GiB
SpMkpart ==
    /\ UNCHANGED mon
    /\ pc = "sp_mkpart"
    /\ UNCHANGED <<calls, fstab, sp, sf, ignored>>
    /\ \E rc \in SpExitCodes :
        /\ log' = Append(log, Entry("parted_mkpart", rc))
        /\ IF rc # 0 THEN Exit("CommandFailed")
           ELSE pc' = "sp_detect" /\ UNCHANGED outcome

\* the listing after the mutation and the detection of the new partition
SpDetect ==
    /\ UNCHANGED mon
    /\ pc = "sp_detect"
    /\ UNCHANGED <<calls, fstab, sf, ignored>>
    /\ \E rc \in SpExitCodes, after \in AfterOutputs :
        LET part_list_after == SplitLines(after)
            found == new_parts(part_list_after, sp.parts_before)
        IN  /\ log' = Append(log, Entry("lsblk_names", rc))
            /\ IF rc # 0 THEN after = Names_sda /\ UNCHANGED sp /\ Exit("CommandFailed")
               ELSE IF found = << >>
               THEN /\ sp' = [sp EXCEPT !.part_list_after = part_list_after,
                                        !.new_parts = found]
                    /\ Exit("NoNewPartitionDetected")
               ELSE /\ sp' = [sp EXCEPT !.part_list_after = part_list_after,
                                        !.new_parts = found,
                                        !.swap_partition = T_dev \o found[Len(found)]]
                    /\ pc' = "sp_mkswap"
                    /\ UNCHANGED outcome

\* variant of SpMkswap that goes on to swapon whatever mkswap returned
SpMkswap_lenient ==
    /\ UNCHANGED mon
    /\ pc = "sp_mkswap"
    /\ UNCHANGED <<calls, fstab, sp, sf, ignored>>
    /\ \E rc \in SpExitCodes :
        /\ log' = Append(log, Entry("mkswap", rc))
        /\ pc' = "sp_swapon"
        /\ UNCHANGED outcome

\* mkswap <swap_partition>
SpMkswap ==
    /\ UNCHANGED mon
    /\ pc = "sp_mkswap"
    /\ UNCHANGED <<calls, fstab, sp, sf, ignored>>
    /\ \E rc \in SpExitCodes :
        /\ log' = Append(log, Entry("mkswap", rc))
        /\ IF rc # 0 THEN Exit("CommandFailed")
           ELSE pc' = "sp_swapon" /\ UNCHANGED outcome

\* /sbin/swapon <swap_partition>
SpSwapon ==
    /\ UNCHANGED mon
    /\ pc = "sp_swapon"
    /\ UNCHANGED <<calls, fstab, sp, sf, ignored>>
    /\ \E rc \in SpExitCodes :
        /\ log' = Append(log, Entry("swapon", rc))
        /\ IF rc # 0 THEN Exit("CommandFailed")
           ELSE pc' = "sp_fstab" /\ UNCHANGED outcome

\* lines 203-210: read /etc/fstab, append the line unless the device path
\* occurs in the text; open() may raise, nothing catches it here
SpFstab ==
    /\ UNCHANGED mon
    /\ pc = "sp_fstab"
    /\ UNCHANGED <<calls, sf, ignored>>
    /\ \E io \in FstabIo :
        LET done == partition_fstab(fstab, sp.swap_partition, io)
        IN  /\ (done.status = "AlreadyPresent" => io = "ok")
            /\ fstab' = done.fstab
            /\ IF done.status = "OSError"
               THEN UNCHANGED <<sp, log>> /\ Return("OSError")
               ELSE /\ sp' = [sp EXCEPT !.fstab_status = done.status]
                    /\ log' = IF done.status = "Added"
                              THEN Append(log, Entry("fstab_append", 0))
                              ELSE log
                    /\ Return("Success")

\* what the message of a failed partition call contains: the command and its
\* stderr (run_cmd, lines 26-27), the requested size (line 177), nothing but
\* a fixed text (line 191), or str(e) of an exception that reached main_loop
\* (src/main.py lines 530-531); backup_file is not read after line 138
FailureShown(why) ==
    IF why = "CommandFailed" THEN {"command", "stderr"}
    ELSE IF why = "InsufficientSpace" THEN {"size"}
    ELSE IF why = "NoNewPartitionDetected" THEN {}
    ELSE IF why \in {"ValueError", "IndexError", "OSError"} THEN {"exception"}
    ELSE {}

\* ------------------------------------------ SwapFileManager, pure parts
\* variant of convert_to_bytes with decimal units (10^9 and 10^6)
convert_to_bytes_decimal(size_str) ==
    LET num == FindNumber(size_str)
        unit == FindUnit(size_str)
    IN  IF IsError(num) \/ IsError(unit) THEN 0
        ELSE IF IsGibi(unit.unit) THEN RatFloor(RatMul(num, 1000 * 1000 * 1000))
        ELSE IF IsMebi(unit.unit) THEN RatFloor(RatMul(num, 1000 * 1000))
        ELSE 0

\* convert_to_bytes: int(num * 1024**3) or int(num * 1024**2); 0 on any error
convert_to_bytes(size_str) ==
    LET num == FindNumber(size_str)
        unit == FindUnit(size_str)
    IN  IF IsError(num) \/ IsError(unit) THEN 0
        ELSE IF IsGibi(unit.unit) THEN RatFloor(RatMul(num, 1024 * 1024 * 1024))
        ELSE IF IsMebi(unit.unit) THEN RatFloor(RatMul(num, 1024 * 1024))
        ELSE 0

\* variant of StandardSteps with mkswap before chmod
StandardSteps_swapped == <<"fallocate", "mkswap", "chmod", "swapon">>

\* the steps of standard_swap_creation and of btrfs_swap_creation
StandardSteps == <<"fallocate", "chmod", "mkswap", "swapon">>
CowSteps == <<"truncate", "chattr", "fallocate", "chmod", "mkswap", "swapon">>

\* the command line of a step
CmdText(name, rec) ==
    CASE name = "fallocate" -> C_fallocate \o rec.size \o T_space \o rec.swap_file_path
      [] name = "chmod" -> C_chmod \o rec.swap_file_path
      [] name = "mkswap" -> C_mkswap \o rec.swap_file_path
      [] name = "swapon" -> C_swapon \o rec.swap_file_path
      [] name = "truncate" -> C_truncate \o rec.swap_file_path
      [] name = "chattr" -> C_chattr \o rec.swap_file_path
      [] name = "dd" -> C_dd_of \o rec.swap_file_path \o C_dd_bs
                        \o IntText(rec.size_bytes \div (1024 * 1024)) \o C_dd_status

\* str(e) of subprocess.CalledProcessError(returncode, cmd), returncode > 0
\* "Command '<cmd>' returned non-zero exit status <rc>."
StrCalledProcessError(cmd, rc) ==
    <<"C", "o", "m", "m", "a", "n", "d", " ", "'">> \o cmd
        \o <<"'", " ", "r", "e", "t", "u", "r", "n", "e", "d", " ", "n", "o", "n", "-",
             "z", "e", "r", "o", " ", "e", "x", "i", "t", " ", "s", "t", "a", "t", "u",
             "s", " ">>
        \o IntText(rc) \o <<".">>

\* line 407: "swapon" in cmd and "Invalid argument" in str(e)
IsUnusableSwapError(cmd, rc) ==
    /\ Contains(cmd, T_swapon)
    /\ Contains(StrCalledProcessError(cmd, rc), T_InvalidArgument)

\* line 481: "swapon" in str(e.cmd).lower() and e.returncode == 255
IsSwapon255(cmd, rc) == Contains(Lower(cmd), T_swapon) /\ rc = 255

\* line 366: "fallocate" in cmd.lower()
IsFallocateCmd(cmd) == Contains(Lower(cmd), T_fallocate)

\* variant of FirstStrategy that starts with the standard strategy always
FirstStrategy_standard(fs_type) == "sf_std"

\* lines 474-479: the strategy create_swap_file starts with
FirstStrategy(fs_type) == IF fs_type = T_btrfs THEN "sf_btrfs" ELSE "sf_std"

\* variant of update_fstab that opens /etc/fstab with mode 'w'
update_fstab_rewrite(text, path, io) ==
    IF io = "read_error" THEN [fstab |-> text, status |-> "Failed"]
    ELSE IF ~Contains(text, path)
    THEN IF io = "write_error" THEN [fstab |-> text, status |-> "Failed"]
         ELSE [fstab |-> FstabLine(path), status |-> "Added"]
    ELSE [fstab |-> text, status |-> "Already present"]

\* update_fstab: the new text of /etc/fstab and the status it returns
update_fstab(text, path, io) ==
    IF io = "read_error" THEN [fstab |-> text, status |-> "Failed"]
    ELSE IF ~Contains(text, path)
    THEN IF io = "write_error" THEN [fstab |-> text, status |-> "Failed"]
         ELSE [fstab |-> text \o FstabLine(path), status |-> "Added"]
    ELSE [fstab |-> text, status |-> "Already present"]

\* ------------------------------------------------ environment of sf and rm
\* how a command ends: exit code 0, a timeout, or a non-zero exit code
Ok == [rc |-> 0, timeout |-> FALSE]
TimedOut == [rc |-> 0, timeout |-> TRUE]
Failed(rc) == [rc |-> rc, timeout |-> FALSE]
SfPaths == {Path_swapfile, Path_odd}
SfSizeInputs == {Size_1G, Size_32M, Size_2TiB}
\* what "file <path>" prints, and whether it fails (printing nothing)
FileProbes == {[fails |-> FALSE, text |-> FileOut_swap],
               [fails |-> TRUE, text |-> << >>]}
\* detect_filesystem: the first df fails, or both succeed and print a type
DfResults == {[out |-> Failed(1), type |-> << >>], [out |-> Ok, type |-> T_btrfs],
              [out |-> Ok, type |-> T_ext4]}
T_unknown == <<"u", "n", "k", "n", "o", "w", "n">>
\* the path asked for and what df reports for it; the path whose command
\* lines contain "Invalid argument" is explored on btrfs
SfEnvironments ==
    {[path |-> Path_swapfile, df |-> d] : d \in DfResults}
        \cup {[path |-> Path_odd, df |-> [out |-> Ok, type |-> T_btrfs]]}

\* how a command can fail: swapon exits with 1 or 255, the others with 1
Failures(name) == IF name = "swapon" THEN {Failed(1), Failed(255)} ELSE {Failed(1)}
\* which of swapoff and rm -f fail in one cleanup_swap_file
CleanupFailures == {{}, {"swapoff", "rm"}}

\* ------------------------------------- SwapFileManager (sf and rm commands)
\* cleanup_swap_file: swapoff and rm -f, both with check=False (so the
\* except clause of lines 329-333 never runs)
Cleanup(lg) == lg \o <<Unchecked("swapoff", "cleanup"), Unchecked("rm", "cleanup")>>

\* variant of Raise in which the escalation is counted as a retry
Raise_counted(lg, rec, cmd, rc) ==
    IF ~rec.in_handler /\ IsSwapon255(cmd, rc)
    THEN \E c \in CleanupFailures :
            /\ log' = Cleanup(lg)
            /\ ignored' = ignored \cup c
            /\ sf' = [rec EXCEPT !.in_handler = TRUE, !.step = 1,
                                 !.retry_count = @ + 1]
            /\ pc' = "sf_btrfs"
            /\ UNCHANGED outcome
    ELSE /\ log' = lg
         /\ sf' = rec
         /\ UNCHANGED ignored
         /\ Exit("Failed")

\* a CalledProcessError leaves a strategy: lines 480-487 when it is raised
\* inside the try of line 473, lines 506-521 otherwise
Raise(lg, rec, cmd, rc) ==
    IF ~rec.in_handler /\ IsSwapon255(cmd, rc)
    THEN \E c \in CleanupFailures :
            /\ log' = Cleanup(lg)
            /\ ignored' = ignored \cup c
            /\ sf' = [rec EXCEPT !.in_handler = TRUE, !.step = 1]
            /\ pc' = "sf_btrfs"
            /\ UNCHANGED outcome
    ELSE /\ log' = lg
         /\ sf' = rec
         /\ UNCHANGED ignored
         /\ Exit("Failed")

\* detect_filesystem: df through run_cmd (check=True), any exception gives
\* "unknown"
detect_filesystem(df) == IF df.out # Ok THEN T_unknown ELSE Lower(df.type)

\* variant of TooSmall with a minimum of 16 MiB
TooSmall_16(size_bytes) == size_bytes < 16 * 1024 * 1024

\* line 446: self.size_bytes < 64 * 1024**2
TooSmall(size_bytes) == size_bytes < 64 * 1024 * 1024

\* create_swap_file is entered; ask_user_inputs: the path, the size (asked
\* again until validate_size accepts it), the 64 MiB test, detect_filesystem
SfAskUserInputs ==
    /\ UNCHANGED mon
    /\ pc = "menu"
    /\ calls < MaxCalls
    /\ calls' = calls + 1
    /\ sp' = SpIdle
    /\ ignored' = {}
    /\ UNCHANGED fstab
    /\ \E env \in SfEnvironments, size \in SfSizeInputs :
        LET df == env.df
            bytes == convert_to_bytes(size)
            asked == [SfObject(sf) EXCEPT !.swap_file_path = env.path, !.size = size,
                                          !.size_bytes = bytes]
        IN  /\ validate_size(size)
            /\ IF TooSmall(bytes)
               THEN /\ df.out = Ok /\ df.type = T_btrfs
                    /\ sf' = asked
                    /\ log' = << >>
                    /\ Exit("SizeTooSmall")
               ELSE /\ sf' = [asked EXCEPT !.fs_type = detect_filesystem(df)]
                    /\ log' = IF df.out # Ok
                              THEN <<SfEntry("df_target", df.out, "detect")>>
                              ELSE <<SfEntry("df_target", Ok, "detect"),
                                     SfEntry("df_type", Ok, "detect")>>
                    /\ pc' = "sf_preflight"
                    /\ outcome' = "none"

\* variant of SfPreflight that cleans up also when the operator declines
SfPreflight_cleanup ==
    /\ UNCHANGED mon
    /\ pc = "sf_preflight"
    /\ UNCHANGED <<calls, fstab, sp>>
    /\ \E exists \in BOOLEAN, probe \in FileProbes, recreate \in BOOLEAN,
          c \in CleanupFailures :
        LET valid == Contains(Lower(probe.text), T_swap_file)
            probed == Append(log, Unchecked("file", "preflight"))
            failed == IF probe.fails THEN {"file"} ELSE {}
        IN  IF ~exists
            THEN /\ probe.fails /\ recreate /\ c = {}
                 /\ UNCHANGED <<log, ignored, outcome>>
                 /\ sf' = [sf EXCEPT !.step = 1]
                 /\ pc' = FirstStrategy(sf.fs_type)
            ELSE IF valid /\ ~recreate
            THEN /\ log' = Cleanup(probed)
                 /\ ignored' = ignored \cup failed \cup c
                 /\ UNCHANGED sf
                 /\ Return("Declined")
            ELSE /\ (~valid => recreate)
                 /\ log' = Cleanup(probed)
                 /\ ignored' = ignored \cup failed \cup c
                 /\ sf' = [sf EXCEPT !.step = 1]
                 /\ pc' = FirstStrategy(sf.fs_type)
                 /\ UNCHANGED outcome

\* lines 464-479: the existing-file check, then the first strategy
SfPreflight ==
    /\ UNCHANGED mon
    /\ pc = "sf_preflight"
    /\ UNCHANGED <<calls, fstab, sp>>
    /\ \E exists \in BOOLEAN, probe \in FileProbes, recreate \in BOOLEAN,
          c \in CleanupFailures :
        LET valid == Contains(Lower(probe.text), T_swap_file)
            probed == Append(log, Unchecked("file", "preflight"))
            failed == IF probe.fails THEN {"file"} ELSE {}
        IN  IF ~exists
            THEN /\ probe.fails /\ recreate /\ c = {}
                 /\ UNCHANGED <<log, ignored, outcome>>
                 /\ sf' = [sf EXCEPT !.step = 1]
                 /\ pc' = FirstStrategy(sf.fs_type)
            ELSE IF valid /\ ~recreate
            THEN /\ c = {}
                 /\ log' = probed
                 /\ ignored' = ignored \cup failed
                 /\ UNCHANGED sf
                 /\ Return("Declined")
            ELSE /\ (~valid => recreate)
                 /\ log' = Cleanup(probed)
                 /\ ignored' = ignored \cup failed \cup c
                 /\ sf' = [sf EXCEPT !.step = 1]
                 /\ pc' = FirstStrategy(sf.fs_type)
                 /\ UNCHANGED outcome

\* variant of FallbackToBtrfs in which the timeout ends the call
FallbackToBtrfs_fatal(lg, c) ==
    /\ log' = lg
    /\ ignored' = ignored \cup c
    /\ sf' = sf
    /\ Exit("Failed")

\* variant of FallbackToBtrfs in which a timeout moves between the two
\* allocation commands of the standard strategy and leaves no trace
FallbackToBtrfs_cycle(lg, c) ==
    /\ c = {}
    /\ log' = log
    /\ UNCHANGED <<ignored, outcome>>
    /\ sf' = [sf EXCEPT !.step = 1]
    /\ pc' = IF pc = "sf_std" THEN "sf_dd" ELSE "sf_std"

\* lines 382-384: after a timeout, cleanup and the COW-safe strategy
FallbackToBtrfs(lg, c) ==
    /\ log' = Cleanup(lg)
    /\ ignored' = ignored \cup c
    /\ sf' = [sf EXCEPT !.step = 1]
    /\ pc' = "sf_btrfs"
    /\ UNCHANGED outcome

\* the loop of standard_swap_creation goes on after a step, or ends
StandardAdvance(lg) ==
    /\ log' = lg
    /\ UNCHANGED <<ignored, outcome>>
    /\ IF sf.step < Len(StandardSteps)
       THEN sf' = [sf EXCEPT !.step = @ + 1] /\ pc' = "sf_std"
       ELSE sf' = sf /\ pc' = "sf_fstab"

\* one step of the loop of standard_swap_creation (subprocess.run with the
\* 30 s timeout)
SfStandardStep ==
    /\ UNCHANGED mon
    /\ pc = "sf_std"
    /\ UNCHANGED <<calls, fstab, sp>>
    /\ LET name == StandardSteps[sf.step]
           cmd == CmdText(name, sf)
       IN  \E out \in {Ok, TimedOut} \cup Failures(name), c \in CleanupFailures :
            LET lg == Append(log, SfEntry(name, out, "standard"))
            IN  IF out.timeout THEN FallbackToBtrfs(lg, c)
                ELSE /\ c = {}
                     /\ IF out.rc = 0 THEN StandardAdvance(lg)
                        ELSE IF IsFallocateCmd(cmd)
                        THEN /\ log' = lg
                             /\ pc' = "sf_dd"
                             /\ UNCHANGED <<sf, ignored, outcome>>
                        ELSE Raise(lg, sf, cmd, out.rc)

\* lines 367-376: the dd allocation after a failed step whose command
\* contains "fallocate"
SfDd ==
    /\ UNCHANGED mon
    /\ pc = "sf_dd"
    /\ UNCHANGED <<calls, fstab, sp>>
    /\ LET cmd == CmdText("dd", sf)
       IN  \E out \in {Ok, TimedOut} \cup Failures("dd"), c \in CleanupFailures :
            LET lg == Append(log, SfEntry("dd", out, "standard"))
            IN  IF out.timeout THEN FallbackToBtrfs(lg, c)
                ELSE /\ c = {}
                     /\ IF out.rc = 0 THEN StandardAdvance(lg)
                        ELSE Raise(lg, sf, cmd, out.rc)

\* one step of the loop of btrfs_swap_creation (run_cmd, check=True), with
\* the retry of lines 406-416
SfCowStep ==
    /\ UNCHANGED mon
    /\ pc = "sf_btrfs"
    /\ UNCHANGED <<calls, fstab, sp>>
    /\ LET name == CowSteps[sf.step]
           cmd == CmdText(name, sf)
       IN  \E out \in {Ok} \cup Failures(name), c \in CleanupFailures :
            LET lg == Append(log, SfEntry(name, out, "cow"))
            IN  IF out.rc = 0
                THEN /\ c = {}
                     /\ log' = lg
                     /\ UNCHANGED <<ignored, outcome>>
                     /\ IF sf.step < Len(CowSteps)
                        THEN sf' = [sf EXCEPT !.step = @ + 1] /\ UNCHANGED pc
                        ELSE sf' = sf /\ pc' = "sf_fstab"
                ELSE IF IsUnusableSwapError(cmd, out.rc) /\ sf.retry_count < sf.max_retries
                THEN /\ log' = Cleanup(lg)
                     /\ ignored' = ignored \cup c
                     /\ sf' = [sf EXCEPT !.retry_count = @ + 1, !.step = 1]
                     /\ UNCHANGED <<pc, outcome>>
                ELSE /\ c = {}
                     /\ Raise(lg, sf, cmd, out.rc)

\* variant of manual_line that shows what update_fstab would have written
manual_line_raw(status, path) ==
    IF status = "Failed" THEN FstabLine(path) ELSE << >>

\* lines 490-492: the line printed for the operator when update_fstab
\* returned "Failed", f"{path} none swap sw 0 0"
manual_line(status, path) ==
    IF status = "Failed" THEN path \o T_fstab_fields ELSE << >>

\* lines 489-504: update_fstab and the success panel
SfFstab ==
    /\ UNCHANGED mon
    /\ pc = "sf_fstab"
    /\ UNCHANGED <<calls, sp, ignored>>
    /\ \E io \in FstabIo :
        LET r == update_fstab(fstab, sf.swap_file_path, io)
        IN  /\ (io = "write_error" => Contains(fstab, sf.swap_file_path) = FALSE)
            /\ fstab' = r.fstab
            /\ log' = IF r.status = "Added"
                      THEN Append(log, SfEntry("fstab_append", Ok, "fstab"))
                      ELSE log
            /\ sf' = [sf EXCEPT !.fstab_status = r.status,
                                !.shown = manual_line(r.status, sf.swap_file_path)]
            /\ Return("Success")

\* the rm command of the swap console: cleanup_swap_file on the current path
RmCommand ==
    /\ UNCHANGED mon
    /\ pc = "menu"
    /\ calls < MaxCalls
    /\ calls' = calls + 1
    /\ sp' = SpIdle
    /\ sf' = SfObject(sf)
    /\ UNCHANGED fstab
    /\ \E c \in CleanupFailures :
        /\ log' = Cleanup(<< >>)
        /\ ignored' = c
        /\ Return("Removed")

\* the tool is started again after it exited: new manager objects
Restart ==
    /\ UNCHANGED mon
    /\ pc = "exited"
    /\ pc' = "menu"
    /\ sf' = SfNew
    /\ sp' = SpIdle
    /\ log' = << >>
    /\ ignored' = {}
    /\ outcome' = "none"
    /\ UNCHANGED <<calls, fstab>>

Next ==
    \/ SpRun \/ SpSize \/ SpRefused \/ SpConfirmSize \/ SpProceed \/ SpBackup
    \/ SpListBefore \/ SpPartedPrint \/ SpDiskSize \/ SpMkpart \/ SpDetect
    \/ SpMkswap \/ SpSwapon \/ SpFstab
    \/ SfAskUserInputs \/ SfPreflight \/ SfStandardStep \/ SfDd \/ SfCowStep
    \/ SfFstab \/ RmCommand
    \/ Restart

Spec == Init /\ [][Next]_vars

\* the partition workflow alone (sp commands, over several runs of the tool)
NextPartition ==
    \/ SpRun \/ SpSize \/ SpRefused \/ SpConfirmSize \/ SpProceed \/ SpBackup
    \/ SpListBefore \/ SpPartedPrint \/ SpDiskSize \/ SpMkpart \/ SpDetect
    \/ SpMkswap \/ SpSwapon \/ SpFstab
    \/ Restart

SpecPartition == Init /\ [][NextPartition]_vars

\* the swap-file workflow alone (sf and rm commands)
NextFile ==
    \/ SfAskUserInputs \/ SfPreflight \/ SfStandardStep \/ SfDd \/ SfCowStep
    \/ SfFstab \/ RmCommand
    \/ Restart

SpecFile == Init /\ [][NextFile]_vars

\* the swap-file workflow when every command returns or times out and every
\* prompt is answered: a call that has begun takes its next step (the code
\* is sequential, lines 453-521)
SpecFileFair ==
    /\ Init
    /\ [][NextFile]_vars
    /\ WF_vars(SfPreflight)
    /\ WF_vars(SfStandardStep)
    /\ WF_vars(SfDd)
    /\ WF_vars(SfCowStep)
    /\ WF_vars(SfFstab)

\* --------------------------------------------- size strings on their own
\* the strings typed at the size prompt: numbers asked for in GiB and in MiB
\* (the byte count stays below 2^31) with every spelling of the units, two
\* numbers with units the pattern does not know or with none, and strings
\* that are not a number followed by a unit
SizeStrings ==
    LET GibiNumbers ==
            {<<"0">>,
             <<"1">>,
             <<"0", ".", "5">>,
             <<"1", ".", "5">>,
             <<"1", ".", "2", "5">>,
             <<"0", ".", "0", "0", "0", "0", "0", "0", "1">>}
        MebiNumbers ==
            {<<"0">>,
             <<"1">>,
             <<"3", "2">>,
             <<"6", "3", ".", "9">>,
             <<"6", "4">>,
             <<"5", "1", "2">>,
             <<"1", ".", "5">>,
             <<"0", ".", "0", "0", "0", "0", "0", "0", "1">>}
        GibiUnits ==
            {<<"G">>,
             <<"G", "B">>,
             <<"G", "i", "B">>,
             <<"g">>,
             <<"g", "b">>,
             <<"g", "i", "b">>,
             <<"G", "b">>}
        MebiUnits ==
            {<<"M">>,
             <<"M", "B">>,
             <<"M", "i", "B">>,
             <<"m">>,
             <<"m", "b">>,
             <<"m", "i", "b">>,
             <<"m", "B">>}
        OtherUnits ==
            {<<"T", "i", "B">>,
             <<"K">>,
             <<"B">>,
             <<"T">>, << >>}
        MalformedSizes ==
            {<<"G">>,
             <<".", "5", "M">>,
             <<"1", ".", "G">>,
             <<"1", " ", "G">>,
             <<"-", "1", "G">>,
             <<"1", "G", " ">>,
             <<"1", ".", "5", ".", "5", "G">>,
             <<"M", "1">>}
    IN  {n \o u : n \in GibiNumbers, u \in GibiUnits}
            \cup {n \o u : n \in MebiNumbers, u \in MebiUnits}
            \cup {n \o u : n \in {<<"2">>, <<"1", ".", "5">>}, u \in OtherUnits}
            \cup MalformedSizes

\* a size string is about to be looked at
InitSize ==
    /\ pc = "size_typed"
    /\ calls = 0
    /\ log = << >>
    /\ outcome = "none"
    /\ fstab \in InitFstabs
    /\ sp = SpIdle
    /\ sf \in {[SfNew EXCEPT !.size = s] : s \in SizeStrings}
    /\ ignored = {}
    /\ mon = MonIdle

\* lines 440-445: validate_size on the string typed (the prompt is repeated
\* with "Invalid size format" when it fails) and convert_to_bytes
SizeParse ==
    /\ UNCHANGED mon
    /\ pc = "size_typed"
    /\ pc' = "size_parsed"
    /\ outcome' = IF validate_size(sf.size) THEN "SizeAccepted" ELSE "InvalidSizeFormat"
    /\ sf' = [sf EXCEPT !.size_bytes = convert_to_bytes(sf.size)]
    /\ UNCHANGED <<calls, log, fstab, sp, ignored>>

\* validate_size and convert_to_bytes alone, over the size strings
NextSize == SizeParse

SpecSize == InitSize /\ [][NextSize]_vars

\* ------------------------------------------------- the memory monitor
\* the monitors that are alive: forked and not killed (mon.procs[p] is where
\* the process with PID p is: "forked" before line 418, "opened" inside the
\* with block of lines 418-419, "running" in the loop, "dead" after SIGTERM)
MonAlive == {p \in 1..Len(mon.procs) : mon.procs[p] # "dead"}

\* start_monitor (lines 432-445), in the interactive process: int('') of an
\* empty PID file raises ValueError, which main_loop prints
MonStart ==
    /\ pc = "menu"
    /\ mon.cmds < MaxMonitorCommands
    /\ UNCHANGED <<pc, calls, log, outcome, fstab, sp, sf, ignored>>
    /\ IF mon.exists /\ mon.pid = 0
       THEN mon' = [mon EXCEPT !.cmds = @ + 1, !.said = "ValueError"]
       ELSE IF mon.exists /\ mon.pid \in MonAlive
       THEN mon' = [mon EXCEPT !.cmds = @ + 1, !.said = "AlreadyRunning"]
       ELSE mon' = [mon EXCEPT !.cmds = @ + 1, !.said = "Started",
                               !.procs = Append(@, "forked")]

\* the forked monitor opens the PID file for writing (line 418): the file
\* exists and is empty
MonChildOpen ==
    /\ \E p \in 1..Len(mon.procs) :
        /\ mon.procs[p] = "forked"
        /\ mon' = [mon EXCEPT !.procs[p] = "opened", !.exists = TRUE, !.pid = 0]
    /\ UNCHANGED <<pc, calls, log, outcome, fstab, sp, sf, ignored>>

\* the forked monitor writes its PID and closes the file (line 419), then
\* enters its loop
MonChildWrite ==
    /\ \E p \in 1..Len(mon.procs) :
        /\ mon.procs[p] = "opened"
        /\ mon' = [mon EXCEPT !.procs[p] = "running", !.exists = TRUE, !.pid = p]
    /\ UNCHANGED <<pc, calls, log, outcome, fstab, sp, sf, ignored>>

\* stop_monitor (lines 447-466), in the interactive process
MonStop ==
    /\ pc = "menu"
    /\ mon.cmds < MaxMonitorCommands
    /\ UNCHANGED <<pc, calls, log, outcome, fstab, sp, sf, ignored>>
    /\ IF ~mon.exists
       THEN mon' = [mon EXCEPT !.cmds = @ + 1, !.said = "NotRunning"]
       ELSE IF mon.pid = 0
       THEN mon' = [mon EXCEPT !.cmds = @ + 1, !.said = "ValueError"]
       ELSE IF mon.pid \in MonAlive
       THEN mon' = [mon EXCEPT !.cmds = @ + 1, !.said = "Stopped",
                               !.procs[mon.pid] = "dead",
                               !.exists = FALSE, !.pid = 0]
       ELSE mon' = [mon EXCEPT !.cmds = @ + 1, !.said = "NoProcess",
                               !.exists = FALSE, !.pid = 0]

\* the monitor commands of main_loop and the forked monitors
NextMonitor == MonStart \/ MonChildOpen \/ MonChildWrite \/ MonStop

SpecMonitor == Init /\ [][NextMonitor]_vars

\* ------------------------------------------------------------ properties
\* the commands of the partition workflow that change the disk, the swap
\* setup or /etc/fstab
Destructive == {"parted_mkpart", "mkswap", "swapon", "fstab_append"}

\* positions of the log at which the partition workflow issued one of cmds
IssuedAt(cmds) == {i \in 1..Len(log) : log[i].by = "partition" /\ log[i].cmd \in cmds}

\* the size the operator asked for, in GiB: the whole number of the size
\* string, divided by 1024 for the MiB units
RequestedGiB(size) == SizeGib(FindNumber(size), FindUnit(size).unit)

\* C1: parted mkpart is issued only after the sfdisk dump of the same call
\* was issued and exited with 0; a failed dump is the last command of its
\* call, which ends there.
C1_BackupBeforeMutation ==
    /\ \A i \in IssuedAt({"parted_mkpart"}) :
        \E j \in 1..(i - 1) : log[j].cmd = "sfdisk_dump" /\ log[j].rc = 0
    /\ \A j \in IssuedAt({"sfdisk_dump"}) :
        log[j].rc # 0 => j = Len(log) /\ pc = "exited" /\ outcome = "CommandFailed"

C1_Witness ==
    \E i \in IssuedAt({"parted_mkpart"}) : log[i].rc = 0 /\ sp.backup_file

\* C2: a destructive command of the partition workflow is in the log only if
\* the operator answered yes to "Do you want to continue?" in this call; after
\* a no the process has ended, and the call issued nothing but the listing
\* and the free-space queries that precede the question.
C2_ConfirmedBeforeDestructive ==
    /\ IssuedAt(Destructive) # {} => sp.proceed
    /\ outcome = "AbortedByUser" =>
        /\ pc = "exited"
        /\ ~sp.proceed
        /\ \A i \in 1..Len(log) : log[i].cmd \in {"lsblk_disks", "parted_print_free"}

C2_Witness ==
    sp.proceed /\ IssuedAt({"fstab_append"}) # {} /\ outcome = "Success"

C4_NoFreeExtentNeverFits ==
    (/\ pc \in {"sp_confirm_size", "sp_refused"}
     /\ FreeSpaces(SplitLines(DiskScenarios[sp.scen].print_free)) = << >>)
        => (pc = "sp_refused" /\ sp.free_mib = ZeroRat)

\* C5: once the disk size is known, a request with lastEnd + requested GiB
\* above the disk size has ended with InsufficientSpace, and no mkpart,
\* mkswap, swapon or fstab write was issued for it.
C5_EndWithinDisk ==
    (\E i \in IssuedAt({"lsblk_size"}) : log[i].rc = 0) =>
        LET disk_size == disk_size_gib(DiskScenarios[sp.scen].size)
            end == RatAdd(sp.last_end, RequestedGiB(sp.size))
        IN  RatGT(end, disk_size) =>
                /\ pc = "exited"
                /\ outcome = "InsufficientSpace"
                /\ IssuedAt(Destructive) = {}

\* C6: the detected partition is /dev/<name> for a name of the listing after
\* the mutation that is not in the listing before it; when every name of the
\* listing after is in the listing before, the call has ended with
\* NoNewPartitionDetected and issued no mkswap, swapon or fstab write.
C6_DetectedPartitionIsNew ==
    LET New(p) == \A j \in 1..Len(sp.parts_before) : sp.parts_before[j] # p
    IN  /\ sp.swap_partition # << >> =>
            \E i \in 1..Len(sp.part_list_after) :
                /\ sp.swap_partition = T_dev \o sp.part_list_after[i]
                /\ New(sp.part_list_after[i])
        /\ (/\ sp.part_list_after # << >>
            /\ \A i \in 1..Len(sp.part_list_after) : ~New(sp.part_list_after[i])) =>
                /\ pc = "exited"
                /\ outcome = "NoNewPartitionDetected"
                /\ IssuedAt({"mkswap", "swapon", "fstab_append"}) = {}

C6_Witness ==
    /\ sp.parts_before = SplitLines(Names_sda_1)
    /\ sp.part_list_after = SplitLines(Names_sda_1_2)
    /\ sp.swap_partition = T_dev \o <<"s", "d", "a", "2">>
    /\ IssuedAt({"mkswap"}) # {}

\* the targets either provisioner can hand to its fstab step
FstabTargets ==
    SfPaths \cup {T_dev \o name : name \in {<<"s", "d", "a">>, <<"s", "d", "a", "1">>,
                                            <<"s", "d", "a", "2">>, <<"s", "d", "a", "3">>}}

\* the positions of a table text at which a line for the target t starts
LinesFor(text, t) ==
    {i \in 1..Len(text) :
        /\ (i = 1 \/ text[i - 1] = "\n")
        /\ MatchAt(text, t \o T_space, i)}

\* C7: /etc/fstab never holds two lines for one target; and when a
\* provisioner reaches its fstab step with a target whose path does not occur
\* in the table, the step applied twice answers Added (leaving one line for
\* the target) and then AlreadyPresent (leaving the table as it is).
C7_FstabIdempotent ==
    /\ \A t \in FstabTargets : Cardinality(LinesFor(fstab, t)) <= 1
    /\ (pc = "sp_fstab" /\ ~Contains(fstab, sp.swap_partition)) =>
        LET t == sp.swap_partition
            first == partition_fstab(fstab, t, "ok")
            second == partition_fstab(first.fstab, t, "ok")
        IN  /\ first.status = "Added" /\ second.status = "AlreadyPresent"
            /\ second.fstab = first.fstab
            /\ Cardinality(LinesFor(first.fstab, t)) = 1
    /\ (pc = "sf_fstab" /\ ~Contains(fstab, sf.swap_file_path)) =>
        LET t == sf.swap_file_path
            first == update_fstab(fstab, t, "ok")
            second == update_fstab(first.fstab, t, "ok")
        IN  /\ first.status = "Added" /\ second.status = "Already present"
            /\ second.fstab = first.fstab
            /\ Cardinality(LinesFor(first.fstab, t)) = 1

C7_Witness ==
    /\ calls = 2
    /\ sp.swap_partition = T_dev \o <<"s", "d", "a", "2">>
    /\ sp.fstab_status = "AlreadyPresent"
    /\ fstab = Fstab_sda10 \o FstabLine(sp.swap_partition)

\* C8: every step leaves the text /etc/fstab had before as a prefix of the
\* text it has after.
C8_FstabAdditiveOnly == [][IsPrefix(fstab, fstab')]_vars

C8_Witness ==
    /\ outcome = "Removed"
    /\ fstab = Fstab_sda10 \o FstabLine(Path_swapfile)

\* the runs of btrfs_swap_creation the current call started
CowAttempts == {i \in 1..Len(log) : log[i].by = "cow" /\ log[i].cmd = "truncate"}

\* C9: a call that started with retry_count = 0, ran the COW-safe strategy
\* only, and failed, every swapon having exited with 255 (swapon: Invalid
\* argument), ran the COW-safe strategy exactly 3 times.
C9_ThreeCowAttempts ==
    (/\ pc = "exited" /\ outcome = "Failed"
     /\ sf.retry_at_start = 0
     /\ \A i \in 1..Len(log) : log[i].by # "standard"
     /\ log # << >>
     /\ log[Len(log)].by = "cow" /\ log[Len(log)].cmd = "swapon"
     /\ \A i \in 1..Len(log) :
            (log[i].by = "cow" /\ log[i].cmd = "swapon") => log[i].rc = 255)
        => Cardinality(CowAttempts) = 3

\* C10: in a call that detected btrfs no command of the standard strategy is
\* issued, and the first creation command is the truncate of the COW-safe
\* strategy.
C10_BtrfsSkipsStandard ==
    sf.fs_type = T_btrfs =>
        LET creation == {i \in 1..Len(log) : log[i].by \in {"standard", "cow"}}
        IN  /\ \A i \in creation : log[i].by = "cow"
            /\ \A i \in creation :
                (\A j \in creation : i <= j) => log[i].cmd = "truncate"

C10_Witness ==
    /\ sf.fs_type = T_btrfs
    /\ \E i \in 1..Len(log) : log[i].by = "cow" /\ log[i].cmd = "fallocate"
    /\ outcome = "Success"

\* positions of the log at which a command of the standard strategy timed out
StandardTimeouts == {i \in 1..Len(log) : log[i].by = "standard" /\ log[i].timeout}

StandardSwapon255(e) ==
    e.by = "standard" /\ e.cmd = "swapon" /\ e.rc = 255 /\ ~e.timeout

\* the runs of the COW-safe strategy begun after position i of the log
CowStartsAfter(i) ==
    {j \in (i + 1)..Len(log) : log[j].by = "cow" /\ log[j].cmd = "truncate"}

C13_FstabFailureKeepsSwap ==
    sf.fstab_status = "Failed"
    => /\ pc = "menu"
       /\ outcome = "Success"
       /\ sf.shown = sf.swap_file_path
                       \o <<" ", "n", "o", "n", "e", " ", "s", "w", "a", "p",
                            " ", "s", "w", " ", "0", " ", "0">>
       /\ Len(log) > 0
       /\ LET last == log[Len(log)]
          IN  /\ last.cmd = "swapon"
              /\ last.by \in {"standard", "cow"}
              /\ last.rc = 0
              /\ ~last.timeout

C13_Witness ==
    /\ sf.fstab_status = "Failed"
    /\ outcome = "Success"
    /\ ~Contains(fstab, sf.swap_file_path)
    /\ sf.shown # << >>


C15_AcceptedSizePositive ==
    (pc = "size_parsed" /\ validate_size(sf.size)) => sf.size_bytes > 0


\* C16: a step that leaves the swap-file call with a size below 64 MiB has
\* issued no command at all, has not written /etc/fstab, and has ended the
\* call with "Size too small".
C16_NothingBelow64MiB ==
    [][(pc' # "menu" /\ sf'.size_bytes < 67108864)
       => /\ log' = << >>
          /\ fstab' = fstab
          /\ pc' = "exited"
          /\ outcome' = "SizeTooSmall"]_vars

C16_Witness ==
    /\ pc = "exited"
    /\ outcome = "SizeTooSmall"
    /\ sf.size = Size_32M
    /\ sf.size_bytes = 33554432
    /\ log = << >>


\* C17: when a partition call fails after its backup was written, what is
\* shown for the failure contains the path of the backup file, and for a
\* failed command also the command and its stderr.
C17_FailureShowsBackup ==
    (/\ sp.backup_file = TRUE
     /\ outcome \in {"CommandFailed", "InsufficientSpace", "NoNewPartitionDetected",
                     "ValueError", "IndexError", "OSError"})
    => /\ "backup_file" \in FailureShown(outcome)
       /\ outcome = "CommandFailed"
            => {"command", "stderr"} \subseteq FailureShown(outcome)


\* C18: when the pre-flight found a file and a strategy is about to run its
\* first step, swapoff and rm were issued after the probe, in this order,
\* and neither of them failed (the old file is gone).
C18_OldFileGoneBeforeCreation ==
    (/\ pc \in {"sf_std", "sf_btrfs"}
     /\ sf.step = 1
     /\ \E i \in 1..Len(log) :
         /\ log[i] = Unchecked("file", "preflight")
         /\ \A j \in (i + 1)..Len(log) : log[j].by = "cleanup")
    => /\ Len(log) >= 3
       /\ log[Len(log) - 2] = Unchecked("file", "preflight")
       /\ log[Len(log) - 1] = Unchecked("swapoff", "cleanup")
       /\ log[Len(log)] = Unchecked("rm", "cleanup")
       /\ "swapoff" \notin ignored
       /\ "rm" \notin ignored


\* C19: the step in which the operator declines to recreate a valid swap
\* file returns to the menu without failure, having run nothing but the
\* probe: the log holds only the df commands and the probe, /etc/fstab and
\* the fields of the manager are as they were.
C19_DeclineChangesNothing ==
    [][(pc = "sf_preflight" /\ outcome' = "Declined")
       => /\ pc' = "menu"
          /\ fstab' = fstab
          /\ sf' = sf
          /\ log' = Append(log, Unchecked("file", "preflight"))
          /\ \A i \in 1..Len(log') : log'[i].cmd \in {"df_target", "df_type", "file"}
          /\ ignored' \subseteq {"file"}]_vars

C19_Witness ==
    /\ pc = "menu"
    /\ outcome = "Declined"
    /\ Len(log) >= 1
    /\ log[Len(log)] = Unchecked("file", "preflight")
    /\ "file" \notin ignored


\* the steps of a partition call, in the order of create_swap_partition
StepOrder == <<"sfdisk_dump", "parted_mkpart", "mkswap", "swapon", "fstab_append">>

\* C20: in the log of a partition call each of backup, mkpart, mkswap,
\* swapon and the fstab write occurs at most once, each after the one before
\* it exited with 0; a command that exited non-zero is the last one and the
\* process has exited; after the disk-size test or the detection failed no
\* later step was run; success is reported only after swapon exited with 0.
C20_PartitionStepsInOrder ==
    /\ \A k \in 1..Len(StepOrder) : Cardinality(IssuedAt({StepOrder[k]})) <= 1
    /\ \A k \in 2..Len(StepOrder) :
        \A j \in IssuedAt({StepOrder[k]}) :
            \E i \in IssuedAt({StepOrder[k - 1]}) : i < j /\ log[i].rc = 0
    /\ \A i \in 1..Len(log) :
        (log[i].by = "partition" /\ log[i].rc # 0)
        => (i = Len(log) /\ pc = "exited" /\ outcome = "CommandFailed")
    /\ outcome = "InsufficientSpace" => IssuedAt(Destructive) = {}
    /\ outcome = "NoNewPartitionDetected"
         => IssuedAt({"mkswap", "swapon", "fstab_append"}) = {}
    /\ (outcome = "OSError" /\ sp.swap_partition # << >>)
         => IssuedAt({"fstab_append"}) = {}
    /\ (outcome = "Success" /\ sp.fstab_status # "none")
         => \E i \in IssuedAt({"swapon"}) : log[i].rc = 0

C20_Witness ==
    /\ pc = "menu"
    /\ outcome = "Success"
    /\ \A k \in 1..Len(StepOrder) : Cardinality(IssuedAt({StepOrder[k]})) = 1
    /\ \A i \in 1..Len(log) : log[i].rc = 0


\* C21: once parted print has succeeded in a partition call, no ValueError
\* has ended the call, start is lastEnd and end is lastEnd plus the
\* requested size in GiB (the value check_free_space compared).
C21_EndIsLastEndPlusRequested ==
    (\E i \in IssuedAt({"parted_print"}) : log[i].rc = 0)
    => /\ outcome # "ValueError"
       /\ sp.start = sp.last_end
       /\ sp.end = RatAdd(sp.last_end, RequestedGiB(sp.size))


\* C22: when the listing after the mutation holds more than one name that
\* the listing before it did not hold, the call has ended with
\* NoNewPartitionDetected and no mkswap or swapon was issued.
C22_ExactlyOneNewEntry ==
    Len(sp.new_parts) > 1
    => /\ pc = "exited"
       /\ outcome = "NoNewPartitionDetected"
       /\ IssuedAt({"mkswap", "swapon"}) = {}


C24_OnlyProbeAndSwapoffSwallowed ==
    /\ ignored \subseteq {"file", "swapoff"}
    /\ \A i \in 1..Len(log) :
        (log[i].by = "detect" /\ log[i].rc # 0)
        => (pc = "exited" /\ outcome = "Failed")


\* C25: a call that is over after its swapon succeeded has reported one of
\* Added, AlreadyPresent and Failed for the fstab step and has ended in
\* success, in the partition workflow and in the swap-file workflow.
C25_FstabStepAlwaysReports ==
    pc \in {"menu", "exited"}
    => /\ (\E i \in IssuedAt({"swapon"}) : log[i].rc = 0)
          => /\ sp.fstab_status \in {"Added", "AlreadyPresent", "Failed"}
             /\ outcome = "Success"
       /\ (/\ Len(log) > 0
           /\ \E i \in 1..Len(log) :
               /\ log[i].by \in {"standard", "cow"}
               /\ log[i].cmd = "swapon"
               /\ log[i].rc = 0
               /\ ~log[i].timeout
               /\ \A j \in (i + 1)..Len(log) : log[j].by = "fstab")
          => /\ sf.fstab_status \in {"Added", "Already present", "Failed"}
             /\ outcome = "Success"


\* C26: when the fstab step answered Added or AlreadyPresent for a target,
\* /etc/fstab holds a line "<target> none swap sw 0 0" whose first field is
\* exactly the target.
C26_ReportedTargetHasLine ==
    LET HasLine(t) ==
            \E i \in LinesFor(fstab, t) :
                MatchAt(fstab, t \o T_fstab_fields \o T_newline, i)
    IN  /\ sp.fstab_status \in {"Added", "AlreadyPresent"} => HasLine(sp.swap_partition)
        /\ sf.fstab_status \in {"Added", "Already present"} => HasLine(sf.swap_file_path)


\* C27: the handler of create_swap_file has started the COW-safe strategy
\* only when the swapon of the standard strategy had exited with 255.
C27_EscalationOnlyFromStandard ==
    sf.in_handler => \E i \in 1..Len(log) : StandardSwapon255(log[i])


\* C28: every call finds the retry counter of the manager at 0, so that
\* max_retries retries are available to it.
C28_RetryBudgetPerCall ==
    /\ sf.retry_at_start = 0
    /\ sf.max_retries - sf.retry_at_start = 2


\* C29: a swap-file call that has begun ends (back at the menu, or the
\* process has exited); in its log no command of the standard strategy
\* follows one of the COW-safe strategy, and the COW-safe strategy is begun
\* at most 2 + max_retries times (first run or fallback, escalation, retries).
C29_CallTerminates ==
    /\ [](\A i \in 1..Len(log) : \A j \in (i + 1)..Len(log) :
            log[i].by = "cow" => log[j].by # "standard")
    /\ [](Cardinality(CowAttempts) <= 2 + sf.max_retries)
    /\ (pc \in {"sf_preflight", "sf_std", "sf_dd", "sf_btrfs", "sf_fstab"})
         ~> (pc \in {"menu", "exited"})

C29_Witness ==
    /\ pc = "exited"
    /\ outcome = "Failed"
    /\ \E i \in 1..Len(log) : log[i].by = "standard" /\ log[i].timeout
    /\ Cardinality(CowAttempts) = 2


\* C30: at most one forked monitor is alive, and the step of a stop_monitor
\* leaves no monitor alive and no PID file.
C30_AtMostOneMonitor ==
    [][/\ Cardinality({p \in 1..Len(mon'.procs) : mon'.procs[p] # "dead"}) <= 1
       /\ (mon'.cmds = mon.cmds + 1
             /\ mon'.said \in {"NotRunning", "Stopped", "NoProcess"})
          => /\ \A p \in 1..Len(mon'.procs) : mon'.procs[p] = "dead"
             /\ ~mon'.exists]_vars

====
